---------------------------- MODULE Spec2Model ----------------------------
(***************************************************************************)
(* A model of the query-language crate (src/src/lib.rs): the tokenizer,    *)
(* the recursive-descent parser and the executor of Database, driven the   *)
(* way src/src/main.rs drives them (add_table, parse, execute).            *)
(*                                                                         *)
(* A text is a sequence of one-character strings.  A Value is a record     *)
(* [k, v] with k the kind; a Row is a function from column names to        *)
(* Values (the HashMap); a Table is a record [name, rows].                 *)
(***************************************************************************)
EXTENDS Integers, Sequences, FiniteSets, TLC

VARIABLES
    tables,     \* Database.tables: a function from table names to Tables
    sql,        \* the text last handed to parse
    parsed,     \* what that parse call did: Ok(query), Err(message) or a panic
    query,      \* the Query last handed to execute
    result,     \* what that execute call returned: Ok(rows) or Err(message)
    stages,     \* the value of `rows` after each stage of that execute call
    eval,       \* the last direct call of apply_binop or eval_expr: its arguments
                \* and the Value it returned
    pc          \* "idle", "parsed" (parse has returned), "executed", or
                \* "applied" / "evaluated" (apply_binop / eval_expr has returned)

vars == << tables, sql, parsed, query, result, stages, eval, pc >>

----------------------------------------------------------------------------
(* Bounds of the model. *)

\* the longest row sequence of a table handed to add_table
MaxRows == 3

\* the longest join list of a directly built Query
MaxJoins == 2

\* the largest magnitude of an integer handed to apply_binop directly
MaxInt == 1

\* the largest LIMIT of a directly built Query
MaxLimit == 1

----------------------------------------------------------------------------
(* Value (lib.rs 8-15; IntV is Value::Int) and Option. *)

IntV(i) == [k |-> "Int", v |-> i]

\* a float is kept exactly, as a number of thousandths
Float(m) == [k |-> "Float", v |-> m]

String(s) == [k |-> "String", v |-> s]

Bool(b) == [k |-> "Bool", v |-> b]

Null == [k |-> "Null", v |-> 0]

None == [some |-> FALSE]

Some(x) == [some |-> TRUE, v |-> x]

Min(a, b) == IF a < b THEN a ELSE b

----------------------------------------------------------------------------
(* Characters. *)

LowerCase ==
    << "a", "b", "c", "d", "e", "f", "g", "h", "i", "j", "k", "l", "m",
       "n", "o", "p", "q", "r", "s", "t", "u", "v", "w", "x", "y", "z" >>

UpperCase ==
    << "A", "B", "C", "D", "E", "F", "G", "H", "I", "J", "K", "L", "M",
       "N", "O", "P", "Q", "R", "S", "T", "U", "V", "W", "X", "Y", "Z" >>

Range(s) == { s[i] : i \in DOMAIN s }

Digits == << "0", "1", "2", "3", "4", "5", "6", "7", "8", "9" >>

\* char::is_whitespace
IsWhitespace(c) == c \in { " ", "\t", "\n" }

\* char::is_numeric
NumericChars == Range(Digits)

\* char::is_alphabetic
AlphabeticChars == Range(LowerCase) \cup Range(UpperCase)

\* the characters the word rule keeps taking (lib.rs 111)
WordChars == AlphabeticChars \cup NumericChars \cup { "_" }

\* the characters the number rule keeps taking (lib.rs 108)
NumberChars == NumericChars \cup { "." }

\* the characters of the operator rule (lib.rs 129-130)
OpChars == { "=", "<", ">", "!" }

\* str::to_uppercase, on one character
UpperChar(c) ==
    IF \E i \in DOMAIN LowerCase : LowerCase[i] = c
    THEN UpperCase[CHOOSE i \in DOMAIN LowerCase : LowerCase[i] = c]
    ELSE c

ToUppercase(text) == [ i \in DOMAIN text |-> UpperChar(text[i]) ]

RECURSIVE Concat(_)
\* collect::<String>() of a run of characters
Concat(cs) == IF cs = << >> THEN "" ELSE Head(cs) \o Concat(Tail(cs))

----------------------------------------------------------------------------
(* Lexer (lib.rs 58-137). *)

\* a Token: t is the variant; s is its payload, a string for Ident, String and
\* Op and the sequence of its characters for Number
Tok(t) == [t |-> t, s |-> ""]

TokS(t, s) == [t |-> t, s |-> s]

\* The position of the first character at or after i that `keep` is false of
\* (Len + 1 when there is none): where chars.by_ref().take_while(keep) stops.
\* take_while has then consumed that character too, so the scan resumes after it.
StopAt(chars, i, keepSet) ==
    IF \E j \in i..Len(chars) : chars[j] \notin keepSet
    THEN CHOOSE j \in i..Len(chars) :
            /\ chars[j] \notin keepSet
            /\ \A m \in i..(j - 1) : chars[m] \in keepSet
    ELSE Len(chars) + 1

\* the same for the string rule, whose take_while keeps everything but a quote
StopAtQuote(chars, i) ==
    IF \E j \in i..Len(chars) : chars[j] = "'"
    THEN CHOOSE j \in i..Len(chars) :
            /\ chars[j] = "'"
            /\ \A m \in i..(j - 1) : chars[m] # "'"
    ELSE Len(chars) + 1

\* the characters take_while collected: from i up to the stop
Taken(chars, i, stop) == SubSeq(chars, i, stop - 1)

\* the match on the word (lib.rs 112-127)
WordToken(word) ==
    CASE word = "SELECT" -> Tok("Select")
      [] word = "FROM"   -> Tok("From")
      [] word = "WHERE"  -> Tok("Where")
      [] word = "JOIN"   -> Tok("Join")
      [] word = "ON"     -> Tok("On")
      [] word = "GROUP"  -> Tok("GroupBy")
      [] word = "ORDER"  -> Tok("OrderBy")
      [] word = "LIMIT"  -> Tok("Limit")
      [] word = "AND"    -> Tok("And")
      [] word = "OR"     -> Tok("Or")
      [] word = "ASC"    -> Tok("Asc")
      [] word = "DESC"   -> Tok("Desc")
      [] word = "BY"     -> TokS("Ident", "BY")
      [] OTHER           -> TokS("Ident", word)

RECURSIVE Scan(_, _, _)
\* the while loop of tokenize: chars from position i on, tokens so far
Scan(chars, i, tokens) ==
    IF i > Len(chars) THEN tokens
    ELSE LET ch == chars[i] IN
      CASE IsWhitespace(ch) -> Scan(chars, i + 1, tokens)
        [] ch = ","  -> Scan(chars, i + 1, Append(tokens, Tok("Comma")))
        [] ch = "*"  -> Scan(chars, i + 1, Append(tokens, Tok("Star")))
        [] ch = "("  -> Scan(chars, i + 1, Append(tokens, Tok("LParen")))
        [] ch = ")"  -> Scan(chars, i + 1, Append(tokens, Tok("RParen")))
        [] ch = "'"  ->
             \* next() takes the quote, take_while takes the body and the closing
             \* quote, and the second next() takes one more character
             LET stop == StopAtQuote(chars, i + 1) IN
             Scan(chars, stop + 2,
                  Append(tokens, TokS("String", Concat(Taken(chars, i + 1, stop)))))
        [] ch \in NumericChars ->
             LET stop == StopAt(chars, i, NumberChars) IN
             Scan(chars, stop + 1,
                  Append(tokens, TokS("Number", Taken(chars, i, stop))))
        [] ch \in AlphabeticChars \/ ch = "_" ->
             LET stop == StopAt(chars, i, WordChars) IN
             Scan(chars, stop + 1,
                  Append(tokens, WordToken(Concat(Taken(chars, i, stop)))))
        [] ch \in OpChars ->
             LET stop == StopAt(chars, i, OpChars) IN
             Scan(chars, stop + 1,
                  Append(tokens, TokS("Op", Concat(Taken(chars, i, stop)))))
        [] OTHER -> Scan(chars, i + 1, tokens)

tokenize(input) == Scan(ToUppercase(input), 1, << >>)

----------------------------------------------------------------------------
(* AST (lib.rs 29-52). *)

Column(name) == [e |-> "Column", name |-> name]

Literal(v) == [e |-> "Literal", value |-> v]

BinOp(l, op, r) == [e |-> "BinOp", left |-> l, op |-> op, right |-> r]

FuncCall(name, args) == [e |-> "FuncCall", name |-> name, args |-> args]

Join(table, on) == [table |-> table, on |-> on]

Query(select_cols, from_table, joins, where_clause, group_by, order_by, limit) ==
    [ select_cols |-> select_cols, from_table |-> from_table, joins |-> joins,
      where_clause |-> where_clause, group_by |-> group_by, order_by |-> order_by,
      limit |-> limit ]

----------------------------------------------------------------------------
(* Results: Ok, Err, or a panic (an unwrap on an Err aborts the call). *)

Ok(v) == [r |-> "Ok", v |-> v]

Err(msg) == [r |-> "Err", msg |-> msg]

Panic == [r |-> "Panic"]

\* a parser step that succeeded: its value and the parser's pos after it
Step(v, pos) == [r |-> "Ok", v |-> v, pos |-> pos]

----------------------------------------------------------------------------
(* str::parse of a Number token's characters. *)

DigitOf(c) == (CHOOSE i \in DOMAIN Digits : Digits[i] = c) - 1

RECURSIVE DigitsValue(_)
DigitsValue(cs) ==
    IF cs = << >> THEN 0
    ELSE 10 * DigitsValue(SubSeq(cs, 1, Len(cs) - 1)) + DigitOf(cs[Len(cs)])

RECURSIVE StripZeros(_)
StripZeros(cs) ==
    IF cs # << >> /\ Head(cs) = "0" THEN StripZeros(Tail(cs)) ELSE cs

RECURSIVE DigitsLess(_, _)
\* a < b for two digit runs of the same length
DigitsLess(a, b) ==
    /\ a # << >>
    /\ \/ DigitOf(Head(a)) < DigitOf(Head(b))
       \/ Head(a) = Head(b) /\ DigitsLess(Tail(a), Tail(b))

\* the digit run denotes a number above max, another digit run
Exceeds(cs, max) ==
    LET a == StripZeros(cs) IN
    \/ Len(a) > Len(max)
    \/ Len(a) = Len(max) /\ DigitsLess(max, a)

\* i64::MAX, 9223372036854775807
I64Max ==
    << "9", "2", "2", "3", "3", "7", "2", "0", "3", "6", "8", "5", "4", "7", "7", "5",
       "8", "0", "7" >>

\* usize::MAX on a 64-bit target, 18446744073709551615
UsizeMax ==
    << "1", "8", "4", "4", "6", "7", "4", "4", "0", "7", "3", "7", "0", "9", "5", "5",
       "1", "6", "1", "5" >>

AllDigits(cs) == cs # << >> /\ \A i \in DOMAIN cs : cs[i] \in NumericChars

\* num.parse::<i64>() (lib.rs 366)
ParseI64(cs) ==
    IF AllDigits(cs) /\ ~Exceeds(cs, I64Max) THEN Ok(DigitsValue(cs)) ELSE Err("i64")

\* n.parse::<usize>() (lib.rs 263)
ParseUsize(cs) ==
    IF AllDigits(cs) /\ ~Exceeds(cs, UsizeMax) THEN Ok(DigitsValue(cs)) ELSE Err("usize")

DotCount(cs) == Cardinality({ i \in DOMAIN cs : cs[i] = "." })

\* num.parse::<f64>() (lib.rs 364) of digits and dots that begin with a digit:
\* Ok exactly when there is one dot; the value in thousandths
ParseF64(cs) ==
    IF DotCount(cs) = 1
    THEN LET dot  == CHOOSE i \in DOMAIN cs : cs[i] = "."
             frac == SubSeq(cs, dot + 1, Min(Len(cs), dot + 3))
             pad  == IF Len(frac) = 0 THEN 1000
                     ELSE IF Len(frac) = 1 THEN 100
                     ELSE IF Len(frac) = 2 THEN 10 ELSE 1
         IN  Ok(DigitsValue(SubSeq(cs, 1, dot - 1)) * 1000 + DigitsValue(frac) * pad)
    ELSE Err("f64")

----------------------------------------------------------------------------
(* Parser (lib.rs 143-389).  The parser's state is the token sequence and   *)
(* pos.  A parse_* operator takes pos and returns Step(value, pos'),        *)
(* Err(message) or Panic; an operator that takes a step `left`, `right` or   *)
(* `st` is the code after a `?`: it hands an Err or a panic on unchanged.   *)

\* Parser::current: Some(token) or None
current(tokens, pos) == IF pos <= Len(tokens) THEN Some(tokens[pos]) ELSE None

\* matches!(self.current(), Some(Token::<t>))
At(tokens, pos, t) == current(tokens, pos).some /\ current(tokens, pos).v.t = t

\* Parser::expect of a payload-free token: Step or Err("Expected <t>")
expect(tokens, pos, t) ==
    IF At(tokens, pos, t) THEN Step(TRUE, pos + 1) ELSE Err("Expected " \o t)

\* the Number arm of parse_primary (lib.rs 360-368): unwrap panics on an Err
number_literal(num, pos) ==
    IF "." \in Range(num)
    THEN IF ParseF64(num).r = "Ok"
         THEN Step(Literal(Float(ParseF64(num).v)), pos + 1) ELSE Panic
    ELSE IF ParseI64(num).r = "Ok"
         THEN Step(Literal(IntV(ParseI64(num).v)), pos + 1) ELSE Panic

\* the LParen arm of parse_primary after parse_expr()? (lib.rs 377-378)
close_paren(tokens, expr) ==
    IF expr.r # "Ok" THEN expr
    ELSE IF expect(tokens, expr.pos, "RParen").r # "Ok"
    THEN expect(tokens, expr.pos, "RParen")
    ELSE Step(expr.v, expr.pos + 1)

\* Expr::BinOp(left, op, right) once the right operand is parsed
binop_right(left, op, right) ==
    IF right.r # "Ok" THEN right ELSE Step(BinOp(left, op, right.v), right.pos)

RECURSIVE parse_or_expr(_, _), or_loop(_, _), parse_and_expr(_, _),
          and_loop(_, _), parse_comparison(_, _), parse_primary(_, _)

parse_expr(tokens, pos) == parse_or_expr(tokens, pos)

parse_primary(tokens, pos) ==
    CASE At(tokens, pos, "Ident")  -> Step(Column(tokens[pos].s), pos + 1)
      [] At(tokens, pos, "Number") -> number_literal(tokens[pos].s, pos)
      [] At(tokens, pos, "String") -> Step(Literal(String(tokens[pos].s)), pos + 1)
      [] At(tokens, pos, "LParen") -> close_paren(tokens, parse_or_expr(tokens, pos + 1))
      [] OTHER -> Err("Expected expression")

\* parse_comparison after its first parse_primary()? (lib.rs 343-350)
comparison_rest(tokens, left) ==
    IF left.r # "Ok" THEN left
    ELSE IF At(tokens, left.pos, "Op")
    THEN binop_right(left.v, tokens[left.pos].s, parse_primary(tokens, left.pos + 1))
    ELSE left

parse_comparison(tokens, pos) == comparison_rest(tokens, parse_primary(tokens, pos))

\* the while loop of parse_and_expr, `left` being the expression so far
and_loop(tokens, left) ==
    IF left.r # "Ok" THEN left
    ELSE IF At(tokens, left.pos, "And")
    THEN and_loop(tokens,
                  binop_right(left.v, "AND", parse_comparison(tokens, left.pos + 1)))
    ELSE left

parse_and_expr(tokens, pos) == and_loop(tokens, parse_comparison(tokens, pos))

\* the while loop of parse_or_expr, `left` being the expression so far
or_loop(tokens, left) ==
    IF left.r # "Ok" THEN left
    ELSE IF At(tokens, left.pos, "Or")
    THEN or_loop(tokens, binop_right(left.v, "OR", parse_and_expr(tokens, left.pos + 1)))
    ELSE left

parse_or_expr(tokens, pos) == or_loop(tokens, parse_and_expr(tokens, pos))

RECURSIVE column_loop(_, _, _)
\* the loop of parse_column_list, with the columns collected so far
column_loop(tokens, pos, cols) ==
    IF At(tokens, pos, "Ident")
    THEN IF At(tokens, pos + 1, "Comma")
         THEN column_loop(tokens, pos + 2, Append(cols, tokens[pos].s))
         ELSE Step(Append(cols, tokens[pos].s), pos + 1)
    ELSE Err("Expected column name")

parse_column_list(tokens, pos) == column_loop(tokens, pos, << >>)

\* its else branch is the loop of parse_column_list, line for line
parse_select_list(tokens, pos) ==
    IF At(tokens, pos, "Star") THEN Step(<< "*" >>, pos + 1)
    ELSE column_loop(tokens, pos, << >>)

\* the optional filler BY after GROUP and ORDER (lib.rs 214-216, 224-226)
skip_by(tokens, pos) ==
    IF At(tokens, pos, "Ident") /\ tokens[pos].s = "BY" THEN pos + 1 ELSE pos

\* joins.push(Join { table, on }) once the ON expression is parsed
push_join(joins, table, on_expr) ==
    IF on_expr.r # "Ok" THEN on_expr
    ELSE Step(Append(joins, Join(table, on_expr.v)), on_expr.pos)

RECURSIVE join_loop(_, _)
\* the while loop over JOIN clauses (lib.rs 189-203), `st` holding the joins so far
join_loop(tokens, st) ==
    IF st.r # "Ok" THEN st
    ELSE IF At(tokens, st.pos, "Join")
    THEN IF At(tokens, st.pos + 1, "Ident")
         THEN IF At(tokens, st.pos + 2, "On")
              THEN join_loop(tokens, push_join(st.v, tokens[st.pos + 1].s,
                                               parse_expr(tokens, st.pos + 3)))
              ELSE expect(tokens, st.pos + 2, "On")
         ELSE Err("Expected table name in JOIN")
    ELSE st

\* the position after the optional ASC or DESC of an ORDER BY item
after_direction(tokens, pos) ==
    IF At(tokens, pos, "Asc") \/ At(tokens, pos, "Desc") THEN pos + 1 ELSE pos

RECURSIVE order_loop(_, _, _)
\* the loop over ORDER BY items (lib.rs 228-253); an item is <<col, is_asc>>
order_loop(tokens, pos, cols) ==
    IF At(tokens, pos, "Ident")
    THEN IF At(tokens, after_direction(tokens, pos + 1), "Comma")
         THEN order_loop(tokens, after_direction(tokens, pos + 1) + 1,
                         Append(cols, << tokens[pos].s, ~At(tokens, pos + 1, "Desc") >>))
         ELSE Step(Append(cols, << tokens[pos].s, ~At(tokens, pos + 1, "Desc") >>),
                   after_direction(tokens, pos + 1))
    ELSE Err("Expected column name")

\* Some(expr) of a parsed WHERE expression
some_expr(e) == IF e.r # "Ok" THEN e ELSE Step(Some(e.v), e.pos)

\* the WHERE clause (lib.rs 205-210)
parse_where(tokens, pos) ==
    IF At(tokens, pos, "Where") THEN some_expr(parse_expr(tokens, pos + 1))
    ELSE Step(None, pos)

\* the GROUP BY clause (lib.rs 212-220)
parse_group_by(tokens, pos) ==
    IF At(tokens, pos, "GroupBy")
    THEN parse_column_list(tokens, skip_by(tokens, pos + 1))
    ELSE Step(<< >>, pos)

\* the ORDER BY clause (lib.rs 222-257)
parse_order_by(tokens, pos) ==
    IF At(tokens, pos, "OrderBy")
    THEN order_loop(tokens, skip_by(tokens, pos + 1), << >>)
    ELSE Step(<< >>, pos)

\* the LIMIT clause (lib.rs 259-271): a number that does not parse gives None
parse_limit(tokens, pos) ==
    IF At(tokens, pos, "Limit")
    THEN IF At(tokens, pos + 1, "Number")
         THEN Step(IF ParseUsize(tokens[pos + 1].s).r = "Ok"
                   THEN Some(ParseUsize(tokens[pos + 1].s).v) ELSE None, pos + 2)
         ELSE Err("Expected limit number")
    ELSE Step(None, pos)

\* the source table name (lib.rs 180-187)
parse_from_table(tokens, pos) ==
    IF At(tokens, pos, "Ident") THEN Step(tokens[pos].s, pos + 1)
    ELSE Err("Expected table name")

\* One clause of parse_query: `st` is the parse so far, Step(fields, pos) with
\* the Query fields already parsed, and `clause` the step of the next clause,
\* parsed at st.pos; the result holds that clause's value under `field` too
with_clause(st, field, clause) ==
    IF clause.r # "Ok" THEN clause
    ELSE Step([ f \in (DOMAIN st.v) \cup { field } |->
                  IF f = field THEN clause.v ELSE st.v[f] ], clause.pos)

\* the same for an expect(..)?, which adds no field
with_expect(st, clause) == IF clause.r # "Ok" THEN clause ELSE Step(st.v, clause.pos)

select_clause(tokens, st) ==
    IF st.r # "Ok" THEN st
    ELSE with_clause(st, "select_cols", parse_select_list(tokens, st.pos))

from_clause(tokens, st) ==
    IF st.r # "Ok" THEN st
    ELSE with_clause(st, "from_table", parse_from_table(tokens, st.pos))

joins_clause(tokens, st) ==
    IF st.r # "Ok" THEN st
    ELSE with_clause(st, "joins", join_loop(tokens, Step(<< >>, st.pos)))

where_clause(tokens, st) ==
    IF st.r # "Ok" THEN st
    ELSE with_clause(st, "where_clause", parse_where(tokens, st.pos))

group_clause(tokens, st) ==
    IF st.r # "Ok" THEN st
    ELSE with_clause(st, "group_by", parse_group_by(tokens, st.pos))

order_clause(tokens, st) ==
    IF st.r # "Ok" THEN st
    ELSE with_clause(st, "order_by", parse_order_by(tokens, st.pos))

limit_clause(tokens, st) ==
    IF st.r # "Ok" THEN st
    ELSE with_clause(st, "limit", parse_limit(tokens, st.pos))

expect_clause(tokens, st, t) ==
    IF st.r # "Ok" THEN st ELSE with_expect(st, expect(tokens, st.pos, t))

\* Ok(Query { .. }) (lib.rs 273); tokens left over are not looked at
finish_query(st) ==
    IF st.r # "Ok" THEN st
    ELSE Ok(Query(st.v.select_cols, st.v.from_table, st.v.joins, st.v.where_clause,
                  st.v.group_by, st.v.order_by, st.v.limit))

\* Parser::parse_query on a new Parser (pos at the first token): Ok(Query),
\* Err(message) or Panic
parse_query(tokens) ==
    finish_query(
      limit_clause(tokens,
        order_clause(tokens,
          group_clause(tokens,
            where_clause(tokens,
              joins_clause(tokens,
                from_clause(tokens,
                  expect_clause(tokens,
                    select_clause(tokens,
                      expect_clause(tokens, Step(<< >>, 1), "Select")),
                    "From"))))))))

\* parse (lib.rs 385-389)
parse(text) == parse_query(tokenize(text))

----------------------------------------------------------------------------
(* Query Executor (lib.rs 395-553). *)

\* a Row's HashMap: row.data.get(col).cloned().unwrap_or(Value::Null)
Get(row, col) == IF col \in DOMAIN row THEN row[col] ELSE Null

\* a mutant of is_true: any value but false and null counts as true
is_true_truthy(v) == v # Bool(FALSE) /\ v # Null

\* Value::is_true
is_true(v) == v = Bool(TRUE)

\* a mutant of apply_binop: two strings are compared with `<` and `>` too
apply_binop_string_order(left, op, right) ==
    CASE left.k = "Int" /\ right.k = "Int" ->
           CASE op = "="  -> Bool(left.v = right.v)
             [] op = "!=" -> Bool(left.v # right.v)
             [] op = "<"  -> Bool(left.v < right.v)
             [] op = ">"  -> Bool(left.v > right.v)
             [] op = "<=" -> Bool(left.v <= right.v)
             [] op = ">=" -> Bool(left.v >= right.v)
             [] OTHER     -> Null
      [] left.k = "String" /\ right.k = "String" ->
           CASE op = "="  -> Bool(left.v = right.v)
             [] op = "!=" -> Bool(left.v # right.v)
             [] op = "<"  -> Bool(left.v # right.v /\ left.v = "ENG")
             [] op = ">"  -> Bool(left.v # right.v /\ right.v = "ENG")
             [] OTHER     -> Null
      [] left.k = "Bool" /\ right.k = "Bool" ->
           CASE op = "AND" -> Bool(left.v /\ right.v)
             [] op = "OR"  -> Bool(left.v \/ right.v)
             [] OTHER      -> Null
      [] OTHER -> Null

\* Database::apply_binop
apply_binop(left, op, right) ==
    CASE left.k = "Int" /\ right.k = "Int" ->
           CASE op = "="  -> Bool(left.v = right.v)
             [] op = "!=" -> Bool(left.v # right.v)
             [] op = "<"  -> Bool(left.v < right.v)
             [] op = ">"  -> Bool(left.v > right.v)
             [] op = "<=" -> Bool(left.v <= right.v)
             [] op = ">=" -> Bool(left.v >= right.v)
             [] OTHER     -> Null
      [] left.k = "String" /\ right.k = "String" ->
           CASE op = "="  -> Bool(left.v = right.v)
             [] op = "!=" -> Bool(left.v # right.v)
             [] OTHER     -> Null
      [] left.k = "Bool" /\ right.k = "Bool" ->
           CASE op = "AND" -> Bool(left.v /\ right.v)
             [] op = "OR"  -> Bool(left.v \/ right.v)
             [] OTHER      -> Null
      [] OTHER -> Null

RECURSIVE eval_expr(_, _)
\* Database::eval_expr
eval_expr(expr, row) ==
    CASE expr.e = "Column"   -> Get(row, expr.name)
      [] expr.e = "Literal"  -> expr.value
      [] expr.e = "BinOp"    ->
           apply_binop(eval_expr(expr.left, row), expr.op, eval_expr(expr.right, row))
      [] expr.e = "FuncCall" -> Null

\* the strings of the model in str::cmp (byte) order
StringOrder ==
    << "ALICE", "Alice", "BOB", "Bob", "ENG", "Eng", "SALES", "Sales" >>

\* a < b for two strings of StringOrder
StringLess(a, b) ==
    \E i, j \in DOMAIN StringOrder : StringOrder[i] = a /\ StringOrder[j] = b /\ i < j

\* Database::compare_values: "Less", "Equal" or "Greater"; strings are ordered
\* by the model's StringRank
compare_values(a, b) ==
    CASE a.k = "Int" /\ b.k = "Int" ->
           IF a.v < b.v THEN "Less" ELSE IF a.v > b.v THEN "Greater" ELSE "Equal"
      [] a.k = "String" /\ b.k = "String" ->
           IF a.v = b.v THEN "Equal"
           ELSE IF StringLess(a.v, b.v) THEN "Less" ELSE "Greater"
      [] a.k = "Float" /\ b.k = "Float" ->
           IF a.v < b.v THEN "Less" ELSE IF a.v > b.v THEN "Greater" ELSE "Equal"
      [] OTHER -> "Equal"

\* Ordering::reverse
reverse(ord) ==
    IF ord = "Less" THEN "Greater" ELSE IF ord = "Greater" THEN "Less" ELSE "Equal"

\* the closure handed to sort_by (lib.rs 443-448)
order_cmp(a, b, col, is_asc) ==
    LET cmp == compare_values(Get(a, col), Get(b, col)) IN
    IF is_asc THEN cmp ELSE reverse(cmp)

\* rows.retain(|row| self.eval_expr(where_expr, row).is_true()) (lib.rs 416-418)
retain(rows, where_expr) ==
    LET keep(row) == is_true(eval_expr(where_expr, row)) IN SelectSeq(rows, keep)

\* a mutant of merge: the left value wins on a same-named key
merge_left_wins(left, right) ==
    [ c \in (DOMAIN left) \cup (DOMAIN right) |->
        IF c \in DOMAIN left THEN left[c] ELSE right[c] ]

\* merged = left.clone(); merged.data.extend(right.data.clone()) (lib.rs 426-427)
merge(left, right) ==
    [ c \in (DOMAIN left) \cup (DOMAIN right) |->
        IF c \in DOMAIN right THEN right[c] ELSE left[c] ]

RECURSIVE join_right(_, _, _, _)
\* the inner loop, for right in &join_table.rows, from right row j on
join_right(left, right_rows, j, on) ==
    IF j > Len(right_rows) THEN << >>
    ELSE LET merged == merge(left, right_rows[j]) IN
         (IF is_true(eval_expr(on, merged)) THEN << merged >> ELSE << >>)
            \o join_right(left, right_rows, j + 1, on)

RECURSIVE join_left(_, _, _, _)
\* the outer loop, for left in &rows, from left row i on: new_rows
join_left(rows, i, right_rows, on) ==
    IF i > Len(rows) THEN << >>
    ELSE join_right(rows[i], right_rows, 1, on) \o join_left(rows, i + 1, right_rows, on)

RECURSIVE apply_joins_skip_missing(_, _, _, _, _)
\* a mutant of apply_joins: a joined table that is missing joins as an empty one
apply_joins_skip_missing(db, joins, n, rows, done) ==
    IF n > Len(joins) THEN [r |-> "Ok", done |-> done]
    ELSE LET new_rows == IF joins[n].table \notin DOMAIN db THEN << >>
                         ELSE join_left(rows, 1, db[joins[n].table].rows, joins[n].on)
         IN  apply_joins_skip_missing(db, joins, n + 1, new_rows, Append(done, new_rows))

RECURSIVE apply_joins(_, _, _, _, _)
\* for join in &query.joins, from join n on; `done` holds rows after each join
\* so far.  Ok(done) or the Err of the first joined table that is missing
apply_joins(db, joins, n, rows, done) ==
    IF n > Len(joins) THEN [r |-> "Ok", done |-> done]
    ELSE IF joins[n].table \notin DOMAIN db
    THEN [r |-> "Err", msg |-> "Table not found: " \o joins[n].table, done |-> done]
    ELSE LET new_rows == join_left(rows, 1, db[joins[n].table].rows, joins[n].on) IN
         apply_joins(db, joins, n + 1, new_rows, Append(done, new_rows))

\* the key of a row in apply_group_by (lib.rs 480-483)
group_key(row, group_cols) == [ i \in DOMAIN group_cols |-> Get(row, group_cols[i]) ]

\* the keys of the groups HashMap
group_keys(rows, group_cols) == { group_key(rows[i], group_cols) : i \in DOMAIN rows }

\* the orders a HashMap's into_iter may take over its keys
Orderings(S) ==
    { o \in [ 1..Cardinality(S) -> S ] : \A i, j \in DOMAIN o : i # j => o[i] # o[j] }

\* Database::apply_group_by, the groups HashMap iterated in the order `order`:
\* one row per group, holding the group columns alone
apply_group_by(group_cols, order) ==
    [ g \in DOMAIN order |->
        [ c \in Range(group_cols) |->
            order[g][CHOOSE i \in DOMAIN group_cols : group_cols[i] = c
                        /\ \A m \in DOMAIN group_cols : group_cols[m] = c => m <= i] ] ]

\* insert x into a sorted prefix as insertion_sort_shift_left does: x moves left
\* past every element it is Less than, and stops at the first it is not
insert_tail(prefix, x, col, is_asc) ==
    LET stay == { j \in DOMAIN prefix : order_cmp(x, prefix[j], col, is_asc) # "Less" }
        p    == IF stay = {} THEN 0 ELSE CHOOSE j \in stay : \A m \in stay : m <= j
    IN  SubSeq(prefix, 1, p) \o << x >> \o SubSeq(prefix, p + 1, Len(prefix))

RECURSIVE sort_from(_, _, _, _)
\* rows.sort_by(..) on one key: the stable sort of the standard library,
\* which is this insertion sort on slices of at most 20 elements
sort_from(rows, i, col, is_asc) ==
    IF i > Len(rows) THEN rows
    ELSE sort_from(insert_tail(SubSeq(rows, 1, i - 1), rows[i], col, is_asc)
                      \o SubSeq(rows, i + 1, Len(rows)),
                   i + 1, col, is_asc)

sort_by(rows, col, is_asc) == sort_from(rows, 2, col, is_asc)

RECURSIVE apply_order_by_forward(_, _, _)
\* a mutant of apply_order_by: the keys sorted on in declaration order (no rev())
apply_order_by_forward(rows, order_by, n) ==
    IF n = 0 THEN rows
    ELSE sort_by(apply_order_by_forward(rows, order_by, n - 1),
                 order_by[n][1], order_by[n][2])

RECURSIVE apply_order_by(_, _, _)
\* for (col, is_asc) in query.order_by.iter().rev(), from key n down
apply_order_by(rows, order_by, n) ==
    IF n = 0 THEN rows
    ELSE apply_order_by(sort_by(rows, order_by[n][1], order_by[n][2]), order_by, n - 1)

\* a mutant of selected_cols: a wildcard selects the keys of every row
selected_cols_all_rows(rows, select_cols) ==
    IF "*" \in Range(select_cols)
    THEN UNION { DOMAIN rows[i] : i \in DOMAIN rows }
    ELSE Range(select_cols)

\* selected_cols (lib.rs 452-456), as the set of columns the new rows get
selected_cols(rows, select_cols) ==
    IF "*" \in Range(select_cols)
    THEN (IF rows = << >> THEN {} ELSE DOMAIN rows[1])
    ELSE Range(select_cols)

\* a mutant of project: a column the row lacks is left out of the new row
project_no_fill(rows, cols) ==
    [ i \in DOMAIN rows |-> [ c \in cols \cap DOMAIN rows[i] |-> rows[i][c] ] ]

\* the projection (lib.rs 458-467)
project(rows, cols) == [ i \in DOMAIN rows |-> [ c \in cols |-> Get(rows[i], c) ] ]

\* a mutant of truncate: one row too many is kept
truncate_one_more(rows, l) == SubSeq(rows, 1, Min(l + 1, Len(rows)))

\* rows.truncate(l)
truncate(rows, l) == SubSeq(rows, 1, Min(l, Len(rows)))

\* the value of `rows` after each stage of one call of execute; a stage the
\* call did not reach holds << >>, and joined holds the rows after each join
NoStages ==
    [ fetched |-> << >>, filtered |-> << >>, joined |-> << >>, grouped |-> << >>,
      ordered |-> << >>, projected |-> << >>, limited |-> << >> ]

\* the rows the GROUP BY stage of execute(db, q) is handed ( << >> when the
\* call fails before it)
before_group(db, q) ==
    IF q.from_table \notin DOMAIN db THEN << >>
    ELSE LET fetched  == db[q.from_table].rows
             filtered == IF q.where_clause.some THEN retain(fetched, q.where_clause.v)
                         ELSE fetched
             joined   == apply_joins(db, q.joins, 1, filtered, << >>)
         IN  IF joined.r # "Ok" THEN << >>
             ELSE IF joined.done = << >> THEN filtered
             ELSE joined.done[Len(joined.done)]

\* Database::execute, with the iteration order `order` of the groups HashMap:
\* the result and the stages
execute(db, q, order) ==
    IF q.from_table \notin DOMAIN db
    THEN [ result |-> Err("Table not found: " \o q.from_table), stages |-> NoStages ]
    ELSE
    LET fetched  == db[q.from_table].rows
        filtered == IF q.where_clause.some THEN retain(fetched, q.where_clause.v)
                    ELSE fetched
        joined   == apply_joins(db, q.joins, 1, filtered, << >>)
    IN
    IF joined.r # "Ok"
    THEN [ result |-> Err(joined.msg),
           stages |-> [ NoStages EXCEPT !.fetched = fetched, !.filtered = filtered,
                                        !.joined = joined.done ] ]
    ELSE
    LET after_joins == IF joined.done = << >> THEN filtered
                       ELSE joined.done[Len(joined.done)]
        grouped   == IF q.group_by # << >> THEN apply_group_by(q.group_by, order)
                     ELSE after_joins
        ordered   == apply_order_by(grouped, q.order_by, Len(q.order_by))
        projected == project(ordered, selected_cols(ordered, q.select_cols))
        limited   == IF q.limit.some THEN truncate(projected, q.limit.v) ELSE projected
    IN  [ result |-> Ok(limited),
          stages |-> [ fetched |-> fetched, filtered |-> filtered,
                       joined |-> joined.done, grouped |-> grouped, ordered |-> ordered,
                       projected |-> projected, limited |-> limited ] ]

----------------------------------------------------------------------------
(* Tables: the fixtures of src/src/main.rs and the row pools of the model. *)

Table(name, columns, rows) == [name |-> name, columns |-> columns, rows |-> rows]

\* row(vec![(k, v), ..]) (main.rs 96-102): a Row from a sequence of pairs, a
\* later pair replacing an earlier one on the same key
row(pairs) ==
    [ c \in { pairs[i][1] : i \in DOMAIN pairs } |->
        pairs[CHOOSE i \in DOMAIN pairs :
                 pairs[i][1] = c /\ \A m \in DOMAIN pairs : pairs[m][1] = c => m <= i][2] ]

\* the table of the round-trip scenario: users(id, name, age, dept)
UsersRoundTrip ==
    Table("users", << "id", "name", "age", "dept" >>,
          << row(<< <<"id", IntV(1)>>, <<"name", String("Alice")>>, <<"age", IntV(30)>>,
                    <<"dept", String("Eng")>> >>),
             row(<< <<"id", IntV(2)>>, <<"name", String("Bob")>>, <<"age", IntV(28)>>,
                    <<"dept", String("Sales")>> >>) >>)

\* the tables of tests::test_execute_join (main.rs 233-242)
UsersJoin ==
    Table("users", << "id", "name" >>,
          << row(<< <<"id", IntV(1)>>, <<"name", String("Alice")>> >>) >>)

OrdersJoin ==
    Table("orders", << "user_id", "amount" >>,
          << row(<< <<"user_id", IntV(1)>>, <<"amount", IntV(100)>> >>) >>)

\* the same data under the upper-case names and keys a parsed query carries
UsersUpper ==
    Table("USERS", << "ID", "NAME", "AGE", "DEPT" >>,
          << row(<< <<"ID", IntV(1)>>, <<"NAME", String("ALICE")>>, <<"AGE", IntV(30)>>,
                    <<"DEPT", String("ENG")>> >>),
             row(<< <<"ID", IntV(2)>>, <<"NAME", String("BOB")>>, <<"AGE", IntV(28)>>,
                    <<"DEPT", String("SALES")>> >>) >>)

OrdersUpper ==
    Table("ORDERS", << "USER_ID", "AMOUNT" >>,
          << row(<< <<"USER_ID", IntV(1)>>, <<"AMOUNT", IntV(100)>> >>) >>)

FixtureTables == { UsersRoundTrip, UsersJoin, OrdersJoin, UsersUpper, OrdersUpper }

\* rows for a USERS table: ties on AGE and on ID, and a row without DEPT that
\* has a key of its own
UserRows ==
    { row(<< <<"ID", IntV(1)>>, <<"AGE", IntV(30)>>, <<"DEPT", String("ENG")>> >>),
      row(<< <<"ID", IntV(2)>>, <<"AGE", IntV(28)>>, <<"DEPT", String("SALES")>> >>),
      row(<< <<"ID", IntV(2)>>, <<"AGE", IntV(28)>>, <<"DEPT", String("ENG")>> >>),
      row(<< <<"ID", IntV(3)>>, <<"AGE", IntV(30)>>, <<"ACTIVE", Bool(TRUE)>> >>) }

\* rows for an ORDERS table: the second has a key, ID, that USERS rows have too
OrderRows ==
    { row(<< <<"USER_ID", IntV(1)>>, <<"AMOUNT", IntV(100)>> >>),
      row(<< <<"USER_ID", IntV(2)>>, <<"AMOUNT", IntV(50)>>, <<"ID", IntV(2)>> >>) }

\* the sequences of at most n distinct rows of a pool
RowSeqs(pool, n) ==
    UNION { { s \in [ 1..m -> pool ] : \A i, j \in 1..m : i # j => s[i] # s[j] } :
            m \in 0..n }

TablePool ==
    { Table("USERS", << "ID", "AGE", "DEPT" >>, rows) : rows \in RowSeqs(UserRows, MaxRows) }
      \cup
    { Table("ORDERS", << "USER_ID", "AMOUNT" >>, rows) :
        rows \in RowSeqs(OrderRows, MaxRows) }

----------------------------------------------------------------------------
(* Directly built queries. *)

\* AGE > 28 OR DEPT = 'ENG': Bool(true), Bool(false) or Null by the row
WhereAgeOrDept ==
    BinOp(BinOp(Column("AGE"), ">", Literal(IntV(28))), "OR",
          BinOp(Column("DEPT"), "=", Literal(String("ENG"))))

\* a bare column: an integer, never a boolean
WhereAge == Column("AGE")

WherePool == { None, Some(WhereAgeOrDept) }

\* JOIN ORDERS ON ID = USER_ID, and a join on a table nobody adds (as nobody
\* adds the source table NOPE)
JoinOrders == Join("ORDERS", BinOp(Column("ID"), "=", Column("USER_ID")))

JoinMissing == Join("GONE", BinOp(Column("ID"), "=", Column("ID")))

JoinPool == { JoinOrders, JoinMissing }

JoinLists == UNION { [ 1..m -> JoinPool ] : m \in 0..MaxJoins }

SelectPool == { << "*" >>, << "ID", "DEPT", "ZIP" >> }

GroupPool == { << >>, << "DEPT" >> }

\* ORDER BY AGE ASC, ID DESC
OrderPool == { << >>, << << "AGE", TRUE >>, << "ID", FALSE >> >> }

LimitPool == { None } \cup { Some(n) : n \in 0..MaxLimit }

\* every combination of the clause pools on USERS; the filter on a bare column,
\* alone and before a join; and queries on a source table nobody adds
Queries ==
    { Query(s, "USERS", j, w, g, o, l) :
        s \in SelectPool, j \in JoinLists, w \in WherePool, g \in GroupPool,
        o \in OrderPool, l \in LimitPool }
      \cup
    { Query(s, "USERS", j, Some(WhereAge), << >>, << >>, None) :
        s \in SelectPool, j \in { << >>, << JoinOrders >> } }
      \cup
    { Query(s, "NOPE", j, None, << >>, << >>, None) : s \in SelectPool, j \in JoinLists }

\* the values handed to apply_binop: every variant of Value (lib.rs 8-15)
Values ==
    { IntV(i) : i \in (0 - MaxInt)..MaxInt }
      \cup { Float(1000), Float(1500), String("ENG"), String("SALES"),
             Bool(TRUE), Bool(FALSE), Null }

\* the operator symbols of a BinOp: the six comparisons, AND and OR, and two
\* operator runs the lexer can produce that apply_binop does not list
Operators == { "=", "!=", "<", ">", "<=", ">=", "AND", "OR", "<>", "==" }

\* expressions without operator: columns (ZIP is in no row), literals and a
\* function call
LeafExprs ==
    { Column("AGE"), Column("DEPT"), Column("ACTIVE"), Column("ZIP"),
      FuncCall("COUNT", << Column("ID") >>) }
      \cup { Literal(v) : v \in Values }

\* comparisons whose value depends on the row
RowComparisons ==
    { BinOp(Column("AGE"), ">", Literal(IntV(28))),
      BinOp(Column("DEPT"), "=", Literal(String("ENG"))),
      BinOp(Column("ACTIVE"), "OR", Literal(Bool(FALSE))) }

\* the expressions handed to eval_expr: leaves, one operator over two leaves,
\* and one operator over two comparisons
Exprs ==
    LeafExprs
      \cup { BinOp(l, op, r) : l \in LeafExprs, op \in Operators, r \in LeafExprs }
      \cup { BinOp(l, op, r) : l \in RowComparisons, op \in { "AND", "OR", "=" },
                               r \in RowComparisons }

\* the rows handed to eval_expr: the USERS rows and the row without columns
EvalRows == UserRows \cup { row(<< >>) }

\* `SELECT name, age FROM users WHERE age > 28 ORDER BY age DESC`
TextRoundTrip ==
    << "S", "E", "L", "E", "C", "T", " ", "n", "a", "m", "e", ",", " ", "a", "g", "e", " ",
       "F", "R", "O", "M", " ", "u", "s", "e", "r", "s", " ", "W", "H", "E", "R", "E", " ",
       "a", "g", "e", " ", ">", " ", "2", "8", " ", "O", "R", "D", "E", "R", " ", "B", "Y",
       " ", "a", "g", "e", " ", "D", "E", "S", "C" >>

\* `SELECT * FROM users JOIN orders ON users.id = orders.user_id`
TextJoin ==
    << "S", "E", "L", "E", "C", "T", " ", "*", " ", "F", "R", "O", "M", " ", "u", "s", "e",
       "r", "s", " ", "J", "O", "I", "N", " ", "o", "r", "d", "e", "r", "s", " ", "O", "N",
       " ", "u", "s", "e", "r", "s", ".", "i", "d", " ", "=", " ", "o", "r", "d", "e", "r",
       "s", ".", "u", "s", "e", "r", "_", "i", "d" >>

\* `SELECT id, name FROM users`
TextSelectList ==
    << "S", "E", "L", "E", "C", "T", " ", "i", "d", ",", " ", "n", "a", "m", "e", " ", "F",
       "R", "O", "M", " ", "u", "s", "e", "r", "s" >>

\* `SELECT * FROM users`
TextStar ==
    << "S", "E", "L", "E", "C", "T", " ", "*", " ", "F", "R", "O", "M", " ", "u", "s", "e",
       "r", "s" >>

\* `SELECT * FROM users WHERE age > 30`
TextWhere ==
    << "S", "E", "L", "E", "C", "T", " ", "*", " ", "F", "R", "O", "M", " ", "u", "s", "e",
       "r", "s", " ", "W", "H", "E", "R", "E", " ", "a", "g", "e", " ", ">", " ", "3", "0" >>

\* `SELECT * FROM users WHERE age>30`
TextWhereTight ==
    << "S", "E", "L", "E", "C", "T", " ", "*", " ", "F", "R", "O", "M", " ", "u", "s", "e",
       "r", "s", " ", "W", "H", "E", "R", "E", " ", "a", "g", "e", ">", "3", "0" >>

\* `SELECT dept FROM users GROUP BY dept`
TextGroupBy ==
    << "S", "E", "L", "E", "C", "T", " ", "d", "e", "p", "t", " ", "F", "R", "O", "M", " ",
       "u", "s", "e", "r", "s", " ", "G", "R", "O", "U", "P", " ", "B", "Y", " ", "d", "e",
       "p", "t" >>

\* `SELECT name FROM users ORDER BY age DESC`
TextOrderBy ==
    << "S", "E", "L", "E", "C", "T", " ", "n", "a", "m", "e", " ", "F", "R", "O", "M", " ",
       "u", "s", "e", "r", "s", " ", "O", "R", "D", "E", "R", " ", "B", "Y", " ", "a", "g",
       "e", " ", "D", "E", "S", "C" >>

\* `SELECT * FROM users LIMIT 2`
TextLimit ==
    << "S", "E", "L", "E", "C", "T", " ", "*", " ", "F", "R", "O", "M", " ", "u", "s", "e",
       "r", "s", " ", "L", "I", "M", "I", "T", " ", "2" >>

\* `SELECT * FROM users LIMIT 1.5`
TextLimitFloat ==
    << "S", "E", "L", "E", "C", "T", " ", "*", " ", "F", "R", "O", "M", " ", "u", "s", "e",
       "r", "s", " ", "L", "I", "M", "I", "T", " ", "1", ".", "5" >>

\* `SELECT * FROM users LIMIT`
TextLimitMissing ==
    << "S", "E", "L", "E", "C", "T", " ", "*", " ", "F", "R", "O", "M", " ", "u", "s", "e",
       "r", "s", " ", "L", "I", "M", "I", "T" >>

\* `SELECT * FROM users LIMIT x`
TextLimitWord ==
    << "S", "E", "L", "E", "C", "T", " ", "*", " ", "F", "R", "O", "M", " ", "u", "s", "e",
       "r", "s", " ", "L", "I", "M", "I", "T", " ", "x" >>

\* `SELECT * FROM users WHERE age = 1.2.3`
TextTwoDots ==
    << "S", "E", "L", "E", "C", "T", " ", "*", " ", "F", "R", "O", "M", " ", "u", "s", "e",
       "r", "s", " ", "W", "H", "E", "R", "E", " ", "a", "g", "e", " ", "=", " ", "1", ".",
       "2", ".", "3" >>

\* `SELECT * FROM users WHERE age = 99999999999999999999`
TextBigInt ==
    << "S", "E", "L", "E", "C", "T", " ", "*", " ", "F", "R", "O", "M", " ", "u", "s", "e",
       "r", "s", " ", "W", "H", "E", "R", "E", " ", "a", "g", "e", " ", "=", " ", "9", "9",
       "9", "9", "9", "9", "9", "9", "9", "9", "9", "9", "9", "9", "9", "9", "9", "9", "9",
       "9" >>

\* `SELECT * FROM users WHERE age = 1.5`
TextFloat ==
    << "S", "E", "L", "E", "C", "T", " ", "*", " ", "F", "R", "O", "M", " ", "u", "s", "e",
       "r", "s", " ", "W", "H", "E", "R", "E", " ", "a", "g", "e", " ", "=", " ", "1", ".",
       "5" >>

\* `SELECT * FROM users WHERE dept = 'Eng' AND age > 1`
TextString ==
    << "S", "E", "L", "E", "C", "T", " ", "*", " ", "F", "R", "O", "M", " ", "u", "s", "e",
       "r", "s", " ", "W", "H", "E", "R", "E", " ", "d", "e", "p", "t", " ", "=", " ", "'",
       "E", "n", "g", "'", " ", "A", "N", "D", " ", "a", "g", "e", " ", ">", " ", "1" >>

\* `SELECT * FROM users WHERE ( age > 28 OR age < 2 ) AND id = 1`
TextParen ==
    << "S", "E", "L", "E", "C", "T", " ", "*", " ", "F", "R", "O", "M", " ", "u", "s", "e",
       "r", "s", " ", "W", "H", "E", "R", "E", " ", "(", " ", "a", "g", "e", " ", ">", " ",
       "2", "8", " ", "O", "R", " ", "a", "g", "e", " ", "<", " ", "2", " ", ")", " ", "A",
       "N", "D", " ", "i", "d", " ", "=", " ", "1" >>

\* `SELECT * FROM users WHERE a = b = c`
TextChained ==
    << "S", "E", "L", "E", "C", "T", " ", "*", " ", "F", "R", "O", "M", " ", "u", "s", "e",
       "r", "s", " ", "W", "H", "E", "R", "E", " ", "a", " ", "=", " ", "b", " ", "=", " ",
       "c" >>

\* `SELECT * FROM users JOIN orders ON a = b = c`
TextChainedOn ==
    << "S", "E", "L", "E", "C", "T", " ", "*", " ", "F", "R", "O", "M", " ", "u", "s", "e",
       "r", "s", " ", "J", "O", "I", "N", " ", "o", "r", "d", "e", "r", "s", " ", "O", "N",
       " ", "a", " ", "=", " ", "b", " ", "=", " ", "c" >>

\* `SELECT FROM users`
TextNoSelectList ==
    << "S", "E", "L", "E", "C", "T", " ", "F", "R", "O", "M", " ", "u", "s", "e", "r", "s" >>

\* the empty text
TextEmpty ==
    << >>

\* `; - ?`
TextGarbage ==
    << ";", " ", "-", " ", "?" >>

\* `SELECT NAME , AGE FROM USERS WHERE AGE > 28 ORDER BY AGE DESC`
TextUpperSpaced ==
    << "S", "E", "L", "E", "C", "T", " ", "N", "A", "M", "E", " ", ",", " ", "A", "G", "E",
       " ", "F", "R", "O", "M", " ", "U", "S", "E", "R", "S", " ", "W", "H", "E", "R", "E",
       " ", "A", "G", "E", " ", ">", " ", "2", "8", " ", "O", "R", "D", "E", "R", " ", "B",
       "Y", " ", "A", "G", "E", " ", "D", "E", "S", "C" >>

\* `SELECT * FROM USERS JOIN ORDERS ON ID = USER_ID WHERE AGE > 28 LIMIT 1`
TextUpperJoin ==
    << "S", "E", "L", "E", "C", "T", " ", "*", " ", "F", "R", "O", "M", " ", "U", "S", "E",
       "R", "S", " ", "J", "O", "I", "N", " ", "O", "R", "D", "E", "R", "S", " ", "O", "N",
       " ", "I", "D", " ", "=", " ", "U", "S", "E", "R", "_", "I", "D", " ", "W", "H", "E",
       "R", "E", " ", "A", "G", "E", " ", ">", " ", "2", "8", " ", "L", "I", "M", "I", "T",
       " ", "1" >>

Texts ==
    { TextRoundTrip,
      TextJoin,
      TextSelectList,
      TextStar,
      TextWhere,
      TextWhereTight,
      TextGroupBy,
      TextOrderBy,
      TextLimit,
      TextLimitFloat,
      TextLimitMissing,
      TextLimitWord,
      TextTwoDots,
      TextBigInt,
      TextFloat,
      TextString,
      TextParen,
      TextChained,
      TextChainedOn,
      TextNoSelectList,
      TextEmpty,
      TextGarbage,
      TextUpperSpaced,
      TextUpperJoin }

----------------------------------------------------------------------------
(* The state machine. *)

Init ==
    /\ tables = << >>
    /\ sql = << >>
    /\ parsed = None
    /\ query = None
    /\ result = None
    /\ stages = NoStages
    /\ eval = None
    /\ pc = "idle"

\* Database::add_table (lib.rs 404-406): insert, or replace the table of that name
AddTable(t) ==
    /\ pc = "idle"
    /\ tables' = [ n \in (DOMAIN tables) \cup { t.name } |->
                     IF n = t.name THEN t ELSE tables[n] ]
    /\ UNCHANGED << sql, parsed, query, result, stages, eval, pc >>

\* parse(sql) (lib.rs 385-389), as test_query calls it (main.rs 64)
Parse(text) ==
    /\ pc = "idle"
    /\ sql' = text
    /\ parsed' = parse(text)
    /\ pc' = "parsed"
    /\ UNCHANGED << tables, query, result, stages, eval >>

\* one call of Database::execute on q; the groups HashMap iterates in some order
Run(q) ==
    /\ \E order \in Orderings(group_keys(before_group(tables, q), q.group_by)) :
          LET run == execute(tables, q, order) IN
          /\ result' = run.result
          /\ stages' = run.stages
    /\ query' = Some(q)
    /\ pc' = "executed"
    /\ UNCHANGED << tables, sql, parsed, eval >>

\* db.execute(&query) on a Query the caller built itself
Execute(q) == pc = "idle" /\ Run(q)

\* db.execute(&query) on the Query parse returned (main.rs 65-66)
ExecuteParsed == pc = "parsed" /\ parsed.r = "Ok" /\ Run(parsed.v)

\* the caller is done with what the call returned (main.rs 67-84)
Return ==
    /\ pc \in { "parsed", "executed", "applied", "evaluated" }
    /\ sql' = << >>
    /\ parsed' = None
    /\ query' = None
    /\ result' = None
    /\ stages' = NoStages
    /\ eval' = None
    /\ pc' = "idle"
    /\ UNCHANGED tables

\* texts parsed and executed against the fixture tables
Next ==
    \/ \E t \in FixtureTables : AddTable(t)
    \/ \E text \in Texts : Parse(text)
    \/ ExecuteParsed
    \/ Return

Spec == Init /\ [][Next]_vars

\* directly built queries executed against tables of the row pools
NextExec ==
    \/ \E t \in TablePool : AddTable(t)
    \/ \E q \in Queries : Execute(q)
    \/ Return

SpecExec == Init /\ [][NextExec]_vars

\* one call of apply_binop (lib.rs 511-534) on two values and an operator symbol
ApplyBinop(left, op, right) ==
    /\ pc = "idle"
    /\ eval' = [ left |-> left, op |-> op, right |-> right,
                 value |-> apply_binop(left, op, right) ]
    /\ pc' = "applied"
    /\ UNCHANGED << tables, sql, parsed, query, result, stages >>

\* one call of eval_expr (lib.rs 498-509) on an expression and a row
EvalExpr(expr, r) ==
    /\ pc = "idle"
    /\ eval' = [ expr |-> expr, row |-> r, value |-> eval_expr(expr, r) ]
    /\ pc' = "evaluated"
    /\ UNCHANGED << tables, sql, parsed, query, result, stages >>

\* the evaluator called on every value pair, operator, expression and row of
\* the pools
NextEval ==
    \/ \E left \in Values, right \in Values : \E op \in Operators :
          ApplyBinop(left, op, right)
    \/ \E expr \in Exprs : \E r \in EvalRows : EvalExpr(expr, r)
    \/ Return

SpecEval == Init /\ [][NextEval]_vars

----------------------------------------------------------------------------
(* The claims.  In a state with pc = "executed", query.v is the Query of    *)
(* the call, result what it returned and stages its intermediate rows.      *)

Executed == pc = "executed"

\* the Query of the call, and whether its source table is in the store
Q == query.v

SourcePresent == Q.from_table \in DOMAIN tables

\* the k-th smallest member of a finite set of numbers
Nth(S, k) == CHOOSE x \in S : Cardinality({ y \in S : y < x }) = k - 1

\* ---- C1 -----------------------------------------------------------------
\* the one row the round-trip scenario must return
RoundTripRow == row(<< <<"name", String("Alice")>>, <<"age", IntV(30)>> >>)

RoundTripSetup ==
    /\ "users" \in DOMAIN tables
    /\ tables["users"] = UsersRoundTrip
    /\ sql = TextRoundTrip

\* C1: with the table users(id, name, age, dept) = (1,Alice,30,Eng),
\* (2,Bob,28,Sales) in the store, parse followed by execute of
\* `SELECT name, age FROM users WHERE age > 28 ORDER BY age DESC` returns Ok
\* with exactly the one row {name: Alice, age: 30}: parse returns Ok, and the
\* execute that follows returns that row.
C1_RoundTrip ==
    RoundTripSetup =>
        /\ pc = "parsed" => parsed.r = "Ok"
        /\ pc = "executed" => result = Ok(<< RoundTripRow >>)

\* ---- C2 -----------------------------------------------------------------
JoinSetup ==
    /\ { "users", "orders" } \subseteq DOMAIN tables
    /\ tables["users"] = UsersJoin
    /\ tables["orders"] = OrdersJoin
    /\ sql = TextJoin

\* C2: with users = {(id 1, name Alice)} and orders = {(user_id 1, amount 100)}
\* in the store, parse of `SELECT * FROM users JOIN orders ON users.id =
\* orders.user_id` returns a Query with exactly one join, on table orders, whose
\* ON expression compares two column names, and the execute that follows
\* returns Ok with exactly one row.
C2_Join ==
    JoinSetup =>
        /\ pc = "parsed" =>
             /\ parsed.r = "Ok"
             /\ Len(parsed.v.joins) = 1
             /\ parsed.v.joins[1].table = "orders"
             /\ parsed.v.joins[1].on.e = "BinOp"
             /\ parsed.v.joins[1].on.left.e = "Column"
             /\ parsed.v.joins[1].on.right.e = "Column"
        /\ pc = "executed" => result.r = "Ok" /\ Len(result.v) = 1

\* ---- C3 -----------------------------------------------------------------
\* an explicit column list and no WHERE, JOIN, GROUP BY, ORDER BY or LIMIT
PlainQuery ==
    /\ "*" \notin Range(Q.select_cols)
    /\ ~Q.where_clause.some
    /\ Q.joins = << >>
    /\ Q.group_by = << >>
    /\ Q.order_by = << >>
    /\ ~Q.limit.some

\* C3: a query on a table T of the store with an explicit column list and no
\* other clause returns Ok with |T| rows, the i-th being the i-th row of T on
\* exactly the selected columns, a column the row lacks holding null.
C3_PlainProjection ==
    (Executed /\ SourcePresent /\ PlainQuery) =>
        LET T == tables[Q.from_table].rows IN
        /\ result.r = "Ok"
        /\ Len(result.v) = Len(T)
        /\ \A i \in DOMAIN T :
             /\ DOMAIN result.v[i] = Range(Q.select_cols)
             /\ \A c \in Range(Q.select_cols) :
                  result.v[i][c] = IF c \in DOMAIN T[i] THEN T[i][c] ELSE Null

\* a plain query has returned two rows in which a selected column is null
C3_Witness ==
    /\ Executed /\ SourcePresent /\ PlainQuery
    /\ result.r = "Ok" /\ Len(result.v) = 2
    /\ \E c \in Range(Q.select_cols) : result.v[1][c] = Null /\ result.v[2][c] = Null
    /\ \E c \in Range(Q.select_cols) : result.v[1][c] # Null /\ result.v[2][c] = Null

\* ---- C4 -----------------------------------------------------------------
\* the source rows the WHERE expression is exactly Bool(true) on
KeptByWhere ==
    { i \in DOMAIN tables[Q.from_table].rows :
        eval_expr(Q.where_clause.v, tables[Q.from_table].rows[i]) = Bool(TRUE) }

\* C4: the filter stage runs on the source table's rows and keeps a row iff
\* the WHERE expression evaluates to exactly Bool(true) on it, the kept rows
\* in their relative order.
C4_Filter ==
    (Executed /\ SourcePresent /\ Q.where_clause.some) =>
        /\ Len(stages.filtered) = Cardinality(KeptByWhere)
        /\ \A n \in DOMAIN stages.filtered :
             stages.filtered[n] = tables[Q.from_table].rows[Nth(KeptByWhere, n)]

\* a filter has kept two rows, dropped the row between them on a null, and the
\* call has joins after it
C4_Witness ==
    /\ Executed /\ SourcePresent /\ Q.where_clause.some
    /\ Len(stages.fetched) = 3 /\ KeptByWhere = { 1, 3 }
    /\ eval_expr(Q.where_clause.v, stages.fetched[2]) = Null
    /\ Q.joins # << >>

\* a filter whose expression is an integer, not a boolean, has dropped every row
C4_WitnessNonBoolean ==
    /\ Executed /\ SourcePresent /\ Q.where_clause.some
    /\ stages.fetched # << >> /\ stages.filtered = << >>
    /\ \A i \in DOMAIN stages.fetched :
         eval_expr(Q.where_clause.v, stages.fetched[i]).k = "Int"

\* ---- C5 -----------------------------------------------------------------
\* the left input of the n-th join, and the rows of its table
JoinLeft(n) == IF n = 1 THEN stages.filtered ELSE stages.joined[n - 1]

JoinRight(n) == tables[Q.joins[n].table].rows

\* l overlaid with r: r's fields, and l's fields under the keys r lacks
Overlay(l, r) ==
    [ c \in (DOMAIN l) \cup (DOMAIN r) |-> IF c \in DOMAIN r THEN r[c] ELSE l[c] ]

\* the merged row of a pair <<left index, right index>> of the n-th join
Merged(n, p) == Overlay(JoinLeft(n)[p[1]], JoinRight(n)[p[2]])

\* the pairs of the n-th join on whose merged row the ON expression is Bool(true)
Matches(n) ==
    { p \in (DOMAIN JoinLeft(n)) \X (DOMAIN JoinRight(n)) :
        eval_expr(Q.joins[n].on, Merged(n, p)) = Bool(TRUE) }

\* the place of a matching pair in left-major order
PairRank(n, p) ==
    1 + Cardinality({ o \in Matches(n) :
                        o[1] < p[1] \/ (o[1] = p[1] /\ o[2] < p[2]) })

\* C5: the n-th join's output is, in left-major then right order, the merged
\* row (left overlaid with right, right winning) of every pair of a row of its
\* left input and a row of its table on which ON is Bool(true); its left input
\* is the filter's output for the first join and the previous join's output
\* after that.
C5_Join ==
    (Executed /\ SourcePresent) =>
        \A n \in DOMAIN stages.joined :
            /\ Len(stages.joined[n]) = Cardinality(Matches(n))
            /\ \A p \in Matches(n) : stages.joined[n][PairRank(n, p)] = Merged(n, p)

\* two joins have run; the second kept some pairs and rejected others, and one
\* kept pair's right row replaced a field of its left row
C5_Witness ==
    /\ Executed /\ SourcePresent /\ Len(stages.joined) = 2
    /\ Len(stages.joined[1]) >= 2
    /\ Matches(2) # {}
    /\ Cardinality(Matches(2)) < Len(JoinLeft(2)) * Len(JoinRight(2))
    /\ \E p \in Matches(1) : \E c \in DOMAIN JoinRight(1)[p[2]] :
         /\ c \in DOMAIN JoinLeft(1)[p[1]]
         /\ JoinLeft(1)[p[1]][c] # JoinRight(1)[p[2]][c]

\* ---- C6 -----------------------------------------------------------------
\* the keys of ORDER BY k1 ASC, k2 DESC, and the integers a row holds there
K1 == Q.order_by[1][1]

K2 == Q.order_by[2][1]

TwoKeyOrder ==
    /\ Len(Q.order_by) = 2
    /\ Q.order_by[1][2] = TRUE
    /\ Q.order_by[2][2] = FALSE

IntegerKeys(rows) ==
    \A i \in DOMAIN rows :
        /\ { K1, K2 } \subseteq DOMAIN rows[i]
        /\ rows[i][K1].k = "Int"
        /\ rows[i][K2].k = "Int"

\* the i-th input row goes before the j-th: smaller k1, or equal k1 and larger
\* k2, or equal on both and earlier in the input
GoesBefore(rows, i, j) ==
    \/ rows[i][K1].v < rows[j][K1].v
    \/ rows[i][K1].v = rows[j][K1].v /\ rows[i][K2].v > rows[j][K2].v
    \/ rows[i][K1].v = rows[j][K1].v /\ rows[i][K2].v = rows[j][K2].v /\ i < j

\* the place of the j-th input row in the output
PlaceOf(rows, j) == 1 + Cardinality({ i \in DOMAIN rows : GoesBefore(rows, i, j) })

\* C6: for ORDER BY k1 ASC, k2 DESC over rows whose k1 and k2 are integers,
\* the order-by stage yields a permutation of its input with k1 non-decreasing,
\* k2 non-increasing among rows of equal k1, and rows equal on both keys in
\* their input order.
C6_OrderBy ==
    (Executed /\ result.r = "Ok" /\ TwoKeyOrder /\ IntegerKeys(stages.grouped)) =>
        /\ Len(stages.ordered) = Len(stages.grouped)
        /\ \A j \in DOMAIN stages.grouped :
             stages.ordered[PlaceOf(stages.grouped, j)] = stages.grouped[j]
        /\ \A i \in 1..(Len(stages.ordered) - 1) :
             LET a == stages.ordered[i]
                 b == stages.ordered[i + 1]
             IN  /\ a[K1].v <= b[K1].v
                 /\ a[K1].v = b[K1].v => a[K2].v >= b[K2].v

\* an order-by on integer keys has moved rows: its input held two k1 values
\* and, in ascending k2 order, two rows of equal k1 and different k2
C6_Witness ==
    /\ Executed /\ result.r = "Ok" /\ TwoKeyOrder /\ IntegerKeys(stages.grouped)
    /\ stages.ordered # stages.grouped
    /\ \E i, j \in DOMAIN stages.grouped :
         stages.grouped[i][K1].v # stages.grouped[j][K1].v
    /\ \E i, j \in DOMAIN stages.grouped :
         /\ i < j
         /\ stages.grouped[i][K1].v = stages.grouped[j][K1].v
         /\ stages.grouped[i][K2].v < stages.grouped[j][K2].v

\* an order-by on integer keys has met a tie: two different rows equal on both
\* keys, and a row with another k1 after them in the input
C6_WitnessTie ==
    /\ Executed /\ result.r = "Ok" /\ TwoKeyOrder /\ IntegerKeys(stages.grouped)
    /\ \E i, j, l \in DOMAIN stages.grouped :
         /\ i < j /\ j < l
         /\ stages.grouped[i] # stages.grouped[j]
         /\ stages.grouped[i][K1].v = stages.grouped[j][K1].v
         /\ stages.grouped[i][K2].v = stages.grouped[j][K2].v
         /\ stages.grouped[l][K1].v > stages.grouped[i][K1].v

\* ---- C7 -----------------------------------------------------------------
\* C7: with LIMIT n, execute returns the first min(n, c) of the c rows the
\* stages before it produced, in their order (none for LIMIT 0); without
\* LIMIT it returns all c rows.
C7_Limit ==
    (Executed /\ result.r = "Ok") =>
        LET c == Len(stages.projected) IN
        IF Q.limit.some
        THEN /\ Len(result.v) = (IF Q.limit.v < c THEN Q.limit.v ELSE c)
             /\ \A i \in DOMAIN result.v : result.v[i] = stages.projected[i]
             /\ Q.limit.v = 0 => result.v = << >>
        ELSE result.v = stages.projected

\* a LIMIT has cut three rows down to one
C7_Witness ==
    /\ Executed /\ result.r = "Ok" /\ Q.limit.some
    /\ Q.limit.v = 1 /\ Len(stages.projected) = 3 /\ Len(result.v) = 1
    /\ stages.projected[1] # stages.projected[2]

\* a LIMIT larger than the row count has cut nothing
C7_WitnessShort ==
    /\ Executed /\ result.r = "Ok" /\ Q.limit.some
    /\ Q.limit.v > Len(stages.projected)

\* ---- C8 -----------------------------------------------------------------
Wildcard == "*" \in Range(Q.select_cols)

\* C8: a wildcard query with no row surviving the stages before projection
\* returns no rows; with rows surviving, every result row has exactly the keys
\* of the first surviving row, holding the row's own value under a key it has
\* and null under a key it lacks.
C8_Wildcard ==
    (Executed /\ result.r = "Ok" /\ Wildcard) =>
        IF stages.ordered = << >>
        THEN stages.projected = << >> /\ result.v = << >>
        ELSE /\ Len(stages.projected) = Len(stages.ordered)
             /\ \A i \in DOMAIN stages.ordered :
                  /\ DOMAIN stages.projected[i] = DOMAIN stages.ordered[1]
                  /\ \A c \in DOMAIN stages.ordered[1] :
                       stages.projected[i][c] =
                          IF c \in DOMAIN stages.ordered[i] THEN stages.ordered[i][c]
                          ELSE Null

\* a wildcard projection in which a later row has a key the first row lacks
\* (dropped) and lacks a key the first row has (filled with null)
C8_Witness ==
    /\ Executed /\ result.r = "Ok" /\ Wildcard
    /\ Len(result.v) >= 2
    /\ \E i \in DOMAIN stages.ordered :
         /\ (DOMAIN stages.ordered[i]) \ (DOMAIN stages.ordered[1]) # {}
         /\ (DOMAIN stages.ordered[1]) \ (DOMAIN stages.ordered[i]) # {}
         /\ i \in DOMAIN result.v

\* a wildcard query over no surviving row
C8_WitnessEmpty ==
    /\ Executed /\ result.r = "Ok" /\ Wildcard
    /\ stages.fetched # << >> /\ stages.ordered = << >>

\* ---- C9 -----------------------------------------------------------------
\* C9: for every input text, parse returns Ok(Query) or Err(message) and never
\* panics.
C9_ParseNeverPanics == pc = "parsed" => parsed.r \in { "Ok", "Err" }

\* ---- C10 ----------------------------------------------------------------
\* the tables the query names, source first and then the joins in order, and
\* the first of them that is not in the store
NamedTables == << Q.from_table >> \o [ n \in DOMAIN Q.joins |-> Q.joins[n].table ]

MissingAt == { n \in DOMAIN NamedTables : NamedTables[n] \notin DOMAIN tables }

FirstMissing == NamedTables[Nth(MissingAt, 1)]

C10_WitnessOk ==
    /\ Executed /\ result.r = "Ok" /\ MissingAt = {}
    /\ Q.group_by # << >> /\ Q.order_by # << >> /\ Wildcard
    /\ stages.fetched # << >> /\ result.v = << >>


\* ---- C11 ----------------------------------------------------------------
\* the tokens of the text parse was called on, and the places of its LIMIT
\* keywords whose next token is missing, is no number, or is a number that is
\* not a run of digits
Tokens == tokenize(sql)

MalformedLimitAt ==
    { i \in DOMAIN Tokens :
        /\ Tokens[i].t = "Limit"
        /\ \/ i = Len(Tokens)
           \/ Tokens[i + 1].t # "Number"
           \/ ~AllDigits(Tokens[i + 1].s) }

\* C11: whenever the token after LIMIT is not a numeric token denoting a
\* non-negative integer row count (missing, not a number, or a number with a
\* decimal point), parse returns Err, never Ok(Query) with the limit absent.
C11_MalformedLimit ==
    (pc = "parsed" /\ MalformedLimitAt # {}) => parsed.r = "Err"


\* ---- C14 ----------------------------------------------------------------
\* the text parse was called on has `a = b = c` as its WHERE or ON expression
ChainedComparison == sql \in { TextChained, TextChainedOn }

\* C14: for a query whose WHERE or ON expression is `a = b = c`, parse returns
\* a parse error (the leftover `= c` is an unexpected token), not Ok(Query)
\* with the leftover tokens ignored.
C14_ChainedRejected ==
    (pc = "parsed" /\ ChainedComparison) => parsed.r = "Err"


\* ---- C12 ----------------------------------------------------------------
\* the characters of the text that stand outside a string literal (an even
\* number of quotes before them, and no quote themselves)
OutsideLiteral(text, i) ==
    /\ text[i] # "'"
    /\ Cardinality({ j \in 1..(i - 1) : text[j] = "'" }) % 2 = 0

OperatorChars == { "=", "<", ">", "!" }

\* the places where a structural token is due: a comma, `*` or parenthesis, or
\* the first character of a maximal run of operator characters
SignificantAt(text) ==
    { i \in DOMAIN text :
        /\ OutsideLiteral(text, i)
        /\ \/ text[i] \in { ",", "*", "(", ")" }
           \/ text[i] \in OperatorChars /\ (i = 1 \/ text[i - 1] \notin OperatorChars) }

\* the end of the maximal operator run that begins at i
RunEnd(text, i) ==
    CHOOSE j \in i..Len(text) :
        /\ \A m \in i..j : text[m] \in OperatorChars
        /\ j = Len(text) \/ text[j + 1] \notin OperatorChars

\* the token due at place i
SignificantToken(text, i) ==
    CASE text[i] = "," -> Tok("Comma")
      [] text[i] = "*" -> Tok("Star")
      [] text[i] = "(" -> Tok("LParen")
      [] text[i] = ")" -> Tok("RParen")
      [] OTHER         -> TokS("Op", Concat(SubSeq(text, i, RunEnd(text, i))))

\* the structural and operator tokens due for the text, in its order
SignificantTokens(text) ==
    [ k \in 1..Cardinality(SignificantAt(text)) |->
        SignificantToken(text, Nth(SignificantAt(text), k)) ]

IsSignificant(token) == token.t \in { "Comma", "Star", "LParen", "RParen", "Op" }

\* C12: tokenize loses no significant character: the commas, `*`, parentheses
\* and maximal operator runs outside string literals each yield their token,
\* in order, whatever character precedes them; so `SELECT id, name FROM users`
\* parses to a select list of two columns and `age>30` lexes to identifier,
\* operator, number.
C12_NoSignificantCharLost ==
    pc = "parsed" =>
        /\ SelectSeq(Tokens, IsSignificant) = SignificantTokens(sql)
        /\ sql = TextSelectList =>
             parsed.r = "Ok" /\ Len(parsed.v.select_cols) = 2
        /\ sql = TextWhereTight =>
             /\ Len(Tokens) = 8
             /\ Tokens[6] = TokS("Ident", "AGE")
             /\ Tokens[7] = TokS("Op", ">")
             /\ Tokens[8].t = "Number"


\* ---- C13 ----------------------------------------------------------------
\* the operator table of the claim: the comparisons of two integers, equality
\* and inequality of two strings, AND and OR of two booleans
IntegerOps == { "=", "!=", "<", ">", "<=", ">=" }

Compared(a, op, b) ==
    CASE op = "="  -> a = b
      [] op = "!=" -> a # b
      [] op = "<"  -> a < b
      [] op = ">"  -> a > b
      [] op = "<=" -> a <= b
      [] op = ">=" -> a >= b

BinopTable(l, op, r) ==
    IF l.k = "Int" /\ r.k = "Int" /\ op \in IntegerOps
    THEN Bool(Compared(l.v, op, r.v))
    ELSE IF l.k = "String" /\ r.k = "String" /\ op \in { "=", "!=" }
    THEN Bool((l.v = r.v) <=> (op = "="))
    ELSE IF l.k = "Bool" /\ r.k = "Bool" /\ op \in { "AND", "OR" }
    THEN Bool(IF op = "AND" THEN l.v /\ r.v ELSE l.v \/ r.v)
    ELSE Null

RECURSIVE ValueOf(_, _)
\* the value the claim gives an expression on a row
ValueOf(expr, r) ==
    CASE expr.e = "Column"   -> IF expr.name \in DOMAIN r THEN r[expr.name] ELSE Null
      [] expr.e = "Literal"  -> expr.value
      [] expr.e = "FuncCall" -> Null
      [] expr.e = "BinOp"    ->
           BinopTable(ValueOf(expr.left, r), expr.op, ValueOf(expr.right, r))

\* C13: for all values l, r and operator symbols op, apply_binop gives the
\* boolean of the comparison for two integers and = != < > <= >=, of equality
\* or inequality for two strings and = !=, of conjunction or disjunction for
\* two booleans and AND OR, and Null in every other case; eval_expr gives the
\* row's value or Null for a column, the value for a literal, Null for a
\* function call, and the operator's result on its operands' values.
C13_OperatorTable ==
    /\ pc = "applied" => eval.value = BinopTable(eval.left, eval.op, eval.right)
    /\ pc = "evaluated" => eval.value = ValueOf(eval.expr, eval.row)

\* apply_binop has been called on two different strings and `<`, an operator
\* the table lists for integers only, and returned Null
C13_Witness ==
    /\ pc = "applied"
    /\ eval.left.k = "String" /\ eval.right.k = "String"
    /\ eval.left # eval.right
    /\ eval.op = "<"
    /\ eval.value = Null

\* apply_binop has returned Bool(true) for two integers under `<=`
C13_WitnessInteger ==
    /\ pc = "applied"
    /\ eval.left.k = "Int" /\ eval.right.k = "Int"
    /\ eval.op = "<=" /\ eval.left.v < eval.right.v
    /\ eval.value = Bool(TRUE)

\* apply_binop has returned Null for a float and an integer under `=`
C13_WitnessFloat ==
    /\ pc = "applied"
    /\ eval.left.k = "Float" /\ eval.right.k = "Int"
    /\ eval.op = "="
    /\ eval.value = Null

\* eval_expr has returned Bool(true) for an operator over two comparisons, one
\* of them on a column the row holds
C13_WitnessNested ==
    /\ pc = "evaluated"
    /\ eval.expr.e = "BinOp" /\ eval.expr.left.e = "BinOp"
    /\ eval.expr.left.left.e = "Column"
    /\ eval.expr.left.left.name \in DOMAIN eval.row
    /\ eval.value = Bool(TRUE)

\* eval_expr has returned Null for a column the row lacks and for a function
\* call
C13_WitnessNull ==
    /\ pc = "evaluated"
    /\ \/ eval.expr.e = "Column" /\ eval.expr.name \notin DOMAIN eval.row
       \/ eval.expr.e = "FuncCall"
    /\ eval.value = Null

=============================================================================
